---- MODULE Spec2Model ----
(***************************************************************************)
(* A model of too-heated-rs (src/src/main.rs): the random sampler of       *)
(* repository listings, the three page walks (issues, comments, commits),   *)
(* the INSERT OR IGNORE store and the 30-day commit window.                 *)
(*                                                                          *)
(* One action is one loop iteration or one straight-line block of main.rs.  *)
(* The remote service is the environment: every request either fails at     *)
(* the transport level, fails to decode, or decodes to a page drawn from a  *)
(* bounded set of pages.                                                    *)
(***************************************************************************)
EXTENDS Integers, Sequences, FiniteSets, TLC

\* Option<T>: None is the empty sequence, Some(x) the sequence of x alone.
None == <<>>
Some(x) == <<x>>
Unwrap(o) == o[1]

(***************************************************************************)
(* Bounds of the model.                                                     *)
(***************************************************************************)
\* rand::random::<u16>() is narrowed to 0..MaxId when the sampler runs alone,
\* and yields MaxDraws values.
MaxId == 2
MaxDraws == 4
\* --iterations ranges over 0..MaxIter.
MaxIter == 1
\* The remote fails (transport or decode) at most MaxFail times per walk.
MaxFail == 1
\* The remote serves non-empty comment pages up to page MaxCommentPage.
MaxCommentPage == 50
\* The remote serves non-empty commit pages up to page MaxCommitPage.
MaxCommitPage == 2

(***************************************************************************)
(* Program constants.                                                       *)
(***************************************************************************)
\* for page in 1..50 (exclusive upper end).
IssuePageEnd == 50
\* Duration::from_secs(5).
SleepSecs == 5
\* Days::new(30).
WindowDays == 30
\* per_page=100 of every page URL.
PerPage == 100

Range(s) == {s[i] : i \in DOMAIN s}

(***************************************************************************)
(* The data the remote can serve.                                           *)
(***************************************************************************)
\* A timestamp text "%FT%TZ" is the sequence of its six numeric fields.
Stamp20230515 == <<2023, 5, 15, 0, 0, 0>>

RepoIds == {1, 2}

\* struct Repository; a URL template is <<stem, suffix>>.
MkRepository(id) ==
    [id |-> id, name |-> "repo",
     forks_url |-> <<"forks", id>>,
     stargazers_url |-> <<"stargazers", id>>,
     commits_url |-> <<<<"commits", id>>, "{/sha}">>,
     issues_url |-> <<<<"issues", id>>, "{/number}">>]

RepoUniverse == {MkRepository(id) : id \in RepoIds}

\* The listings the remote answers to GET /repositories?since=N.
RepoListings ==
    {<<>>} \cup {<<r>> : r \in RepoUniverse}
           \cup {<<MkRepository(1), MkRepository(2)>>,
                 <<MkRepository(1), MkRepository(1)>>}

IssueIds == {1, 2}
LockReasons == {None, Some("too heated"), Some("spam")}
IssueStates == {"closed", "open"}

\* struct Issue, as decoded from a page (repository_id is not in the payload).
MkIssue(id, locked, reason, state) ==
    [id |-> id, title |-> "title", created_at |-> Stamp20230515,
     repository_id |-> None, comments_url |-> <<"comments", id>>,
     locked |-> locked, active_lock_reason |-> reason, state |-> state]

\* Every combination of the three filtered fields under identifier 1, and
\* the matching issue under every identifier.
IssueUniverse ==
    {MkIssue(1, l, r, s) : l \in BOOLEAN, r \in LockReasons, s \in IssueStates}
    \cup {MkIssue(id, TRUE, Some("too heated"), "closed") : id \in IssueIds}

\* Items of the two-item pages: a match, a second match, a near miss.
PairIssues ==
    {MkIssue(1, TRUE, Some("too heated"), "closed"),
     MkIssue(2, TRUE, Some("too heated"), "closed"),
     MkIssue(1, TRUE, Some("too heated"), "open")}

\* The decoded issue pages: empty, every single item, every ordered pair of
\* two different PairIssues.
IssuePages ==
    {<<>>} \cup {<<i>> : i \in IssueUniverse}
           \cup {p \in PairIssues \X PairIssues : p[1] # p[2]}

CommentIds == {1, 2}

\* struct Comment, as decoded from a page (issue_id is not in the payload).
MkComment(id) ==
    [id |-> id, body |-> "body", created_at |-> Stamp20230515,
     issue_id |-> None]

CommentUniverse == {MkComment(id) : id \in CommentIds}

CommentPages ==
    {<<>>} \cup {<<c>> : c \in CommentUniverse}
           \cup {<<c, d>> : c \in CommentUniverse, d \in CommentUniverse}

\* struct Commit.
CommitUniverse == {[url |-> "c1"], [url |-> "c2"]}

\* The decoded commit pages: only their length is used.
CommitPages ==
    {<<>>,
     <<[url |-> "c1"], [url |-> "c2"], [url |-> "c1"]>>,
     <<[url |-> "c1"], [url |-> "c2"], [url |-> "c1"], [url |-> "c2"]>>}

\* The outcome of a request: send() failed, json() failed, or a decoded page.
TransportError == "transport error"
DecodeError == "decode error"
Failures == {TransportError, DecodeError}
Err(e) == [err |-> e, items |-> <<>>]
Ok(items) == [err |-> "", items |-> items]
Outcomes(pages) == {Err(e) : e \in Failures} \cup {Ok(p) : p \in pages}

(***************************************************************************)
(* Filter/Transform (pure).                                                 *)
(***************************************************************************)
\* A filter that leaves out the state of the issue.
TooHeatedAnyState(issue) ==
    /\ issue.locked
    /\ issue.active_lock_reason = Some("too heated")

\* The closure of filter(): lines 115-119.
TooHeated(issue) ==
    /\ issue.locked
    /\ issue.active_lock_reason = Some("too heated")
    /\ issue.state = "closed"

\* The closure of map(): lines 120-123.
StampIssue(issue, repository_id) ==
    [issue EXCEPT !.repository_id = Some(repository_id)]

\* A closure that stamps the comment with its own identifier.
StampCommentWithOwnId(comment, id_issue) ==
    [comment EXCEPT !.issue_id = Some(comment.id)]

\* The closure of map(): lines 170-173.
StampComment(comment, id_issue) ==
    [comment EXCEPT !.issue_id = Some(id_issue)]

\* str::strip_suffix: the stem when the template ends in the suffix.
StripSuffix(template, suffix) ==
    IF template[2] = suffix THEN Some(template[1]) ELSE None

(***************************************************************************)
(* Window bounds (pure): chrono's NaiveDateTime, parsed from and formatted  *)
(* to "%FT%TZ".  A NaiveDateTime is [date |-> <<y, m, d>>, time |-> <<h,    *)
(* mi, s>>]; day arithmetic goes through the day number of the proleptic    *)
(* Gregorian calendar and leaves the time of day alone.                     *)
(***************************************************************************)
IsLeapYear(y) == (y % 4 = 0 /\ y % 100 # 0) \/ y % 400 = 0

DaysInMonth(y, m) ==
    IF m = 2 THEN (IF IsLeapYear(y) THEN 29 ELSE 28)
    ELSE IF m \in {4, 6, 9, 11} THEN 30 ELSE 31

\* Days since 1970-01-01 of a civil date.
DaysFromCivil(y, m, d) ==
    LET yy == IF m <= 2 THEN y - 1 ELSE y
        era == yy \div 400
        yoe == yy - era * 400
        mp == IF m > 2 THEN m - 3 ELSE m + 9
        doy == (153 * mp + 2) \div 5 + d - 1
        doe == yoe * 365 + yoe \div 4 - yoe \div 100 + doy
    IN era * 146097 + doe - 719468

\* The civil date of a day number.
CivilFromDays(n) ==
    LET z == n + 719468
        era == z \div 146097
        doe == z - era * 146097
        yoe == (doe - doe \div 1460 + doe \div 36524 - doe \div 146096) \div 365
        doy == doe - (365 * yoe + yoe \div 4 - yoe \div 100)
        mp == (5 * doy + 2) \div 153
        d == doy - (153 * mp + 2) \div 5 + 1
        m == IF mp < 10 THEN mp + 3 ELSE mp - 9
        y == yoe + era * 400 + (IF m <= 2 THEN 1 ELSE 0)
    IN <<y, m, d>>

\* chrono's NaiveDate::MIN and NaiveDate::MAX, as <<y, m, d>>.
MinDate == <<-262143, 1, 1>>
MaxDate == <<262142, 12, 31>>

\* NaiveDateTime::parse_from_str(text, "%FT%TZ"): None when a field is out
\* of range; a second of 60 (a leap second) is accepted in every minute.
ParseFromStr(text) ==
    IF /\ Len(text) = 6
       /\ text[1] \in MinDate[1]..MaxDate[1]
       /\ text[2] \in 1..12
       /\ text[3] \in 1..DaysInMonth(text[1], text[2])
       /\ text[4] \in 0..23 /\ text[5] \in 0..59 /\ text[6] \in 0..60
    THEN Some([date |-> <<text[1], text[2], text[3]>>,
               time |-> <<text[4], text[5], text[6]>>])
    ELSE None

\* Calendar-month arithmetic: the same day, n / 30 months earlier (clamped
\* to the month's length).
CheckedSubMonths(dt, n) ==
    LET k == n \div 30
        m0 == dt.date[2] - k
        y == IF m0 >= 1 THEN dt.date[1] ELSE dt.date[1] - 1
        m == IF m0 >= 1 THEN m0 ELSE m0 + 12
        d == IF dt.date[3] <= DaysInMonth(y, m) THEN dt.date[3]
             ELSE DaysInMonth(y, m)
    IN Some([dt EXCEPT !.date = <<y, m, d>>])

\* The date of a day number, None when it lies outside MinDate..MaxDate.
CheckedDate(n) ==
    IF /\ n >= DaysFromCivil(MinDate[1], MinDate[2], MinDate[3])
       /\ n <= DaysFromCivil(MaxDate[1], MaxDate[2], MaxDate[3])
    THEN Some(CivilFromDays(n))
    ELSE None

\* NaiveDateTime::checked_sub_days(Days::new(n)): None when the date leaves
\* the range of NaiveDate.
CheckedSubDays(dt, n) ==
    LET date == CheckedDate(DaysFromCivil(dt.date[1], dt.date[2], dt.date[3]) - n)
    IN IF date = None THEN None ELSE Some([dt EXCEPT !.date = Unwrap(date)])

\* NaiveDateTime::checked_add_days(Days::new(n)): None when the date leaves
\* the range of NaiveDate.
CheckedAddDays(dt, n) ==
    LET date == CheckedDate(DaysFromCivil(dt.date[1], dt.date[2], dt.date[3]) + n)
    IN IF date = None THEN None ELSE Some([dt EXCEPT !.date = Unwrap(date)])

\* NaiveDateTime::format("%FT%TZ").to_string().
FormatTimestamp(dt) == dt.date \o dt.time

\* get_since_and_until: <<since, until>> of a timestamp text; an unwrap of
\* None (lines 344, 346, 347) is a panic.
GetSinceAndUntil(input_date) ==
    LET parsed_date == Unwrap(ParseFromStr(input_date))
        thirty_days_before == Unwrap(CheckedSubDays(parsed_date, WindowDays))
        thirty_days_after == Unwrap(CheckedAddDays(parsed_date, WindowDays))
    IN <<FormatTimestamp(thirty_days_before),
         FormatTimestamp(thirty_days_after)>>

\* One of the three unwraps of get_since_and_until panics on this text.
GetSinceAndUntilPanics(input_date) ==
    \/ ParseFromStr(input_date) = None
    \/ CheckedSubDays(Unwrap(ParseFromStr(input_date)), WindowDays) = None
    \/ CheckedAddDays(Unwrap(ParseFromStr(input_date)), WindowDays) = None

(***************************************************************************)
(* The Store: three tables, each a set of rows; every statement is INSERT   *)
(* OR IGNORE on the table's primary key.                                    *)
(***************************************************************************)
\* INSERT OR REPLACE: the new row takes the place of the row with its key.
InsertOrReplace(table, key, row) ==
    {r \in table : r[key] # row[key]} \cup {row}

\* INSERT OR IGNORE of one row into a table with primary key column `key`.
InsertOrIgnore(table, key, row) ==
    IF \E r \in table : r[key] = row[key] THEN table ELSE table \cup {row}

\* The VALUES of store_respository.
RepositoryRow(r) ==
    [id_repo |-> r.id, name |-> r.name, forks_url |-> r.forks_url,
     stars_url |-> r.stargazers_url, commits_url |-> r.commits_url]

\* The VALUES of store_issues.
IssueRow(i) ==
    [id_issue |-> i.id, id_repo |-> i.repository_id,
     created_at |-> i.created_at, title |-> i.title,
     comments_url |-> i.comments_url]

\* The VALUES of store_comments: is_toxic is the literal 0.
CommentRow(c) ==
    [id_comment |-> c.id, id_issue |-> c.issue_id,
     created_at |-> c.created_at, text |-> c.body, is_toxic |-> 0]

\* The orders in which a HashSet may be iterated.
IterationOrders(set) ==
    {s \in [1..Cardinality(set) -> set] :
        \A i, j \in 1..Cardinality(set) : i # j => s[i] # s[j]}

\* store_respository.
StoreRepository(table, r) == InsertOrIgnore(table, "id_repo", RepositoryRow(r))

RECURSIVE InsertAll(_, _, _)
\* The loop of store_issues and store_comments over one iteration order.
InsertAll(table, key, rows) ==
    IF rows = <<>> THEN table
    ELSE InsertAll(InsertOrIgnore(table, key, Head(rows)), key, Tail(rows))

\* store_issues, over the items in iteration order.
StoreIssues(table, order) ==
    InsertAll(table, "id_issue", [k \in DOMAIN order |-> IssueRow(order[k])])

\* The statement of store_issues (lines 307-320) for one issue.
InsertIssue(table, issue) == InsertOrIgnore(table, "id_issue", IssueRow(issue))

\* A statement that replaces the row it finds (INSERT OR REPLACE).
InsertCommentReplacing(table, comment) ==
    {r \in table : r.id_comment # comment.id} \cup {CommentRow(comment)}

\* The statement of store_comments (lines 326-339) for one comment.
InsertComment(table, comment) ==
    InsertOrIgnore(table, "id_comment", CommentRow(comment))

\* store_comments, over the items in iteration order.
StoreComments(table, order) ==
    InsertAll(table, "id_comment", [k \in DOMAIN order |-> CommentRow(order[k])])

(***************************************************************************)
(* Sampler.                                                                 *)
(***************************************************************************)
RECURSIVE RandomId(_, _)
\* The rejection loop of get_random_repo_url (lines 276-283) over the values
\* rand::random::<u16>() yields: Some of the accepted value and the values
\* left, None while no value yielded so far is fresh.
RandomId(seen, stream) ==
    IF stream = <<>> THEN None
    ELSE IF Head(stream) \notin seen
         THEN Some([id |-> Head(stream), rest |-> Tail(stream)])
         ELSE RandomId(seen, Tail(stream))

\* A sampler that forgets to record the identifier it returns.
InsertSeenForgets(seen, random_id) == seen

\* seen_ids.insert(random_id), line 284.
InsertSeen(seen, random_id) == seen \cup {random_id}

(***************************************************************************)
(* Requests.  A URL is the record of its parts; page 0 and per_page 0 stand *)
(* for a URL without these parameters.                                      *)
(***************************************************************************)
NoRequest ==
    [walk |-> "none", base |-> <<>>, page |-> 0, per_page |-> 0,
     state |-> "", since |-> None, until |-> None]

\* format!("{}?since={}", GITUHB_REPO_URL, random_id).
RepositoriesUrl(random_id) ==
    [walk |-> "repositories", base |-> <<"repositories">>, page |-> 0,
     per_page |-> 0, state |-> "", since |-> Some(random_id), until |-> None]

\* format!("{}?page={}&per_page=100&state=closed", issues_url, page).
IssuesUrl(issues_url, p) ==
    [walk |-> "issues", base |-> issues_url, page |-> p,
     per_page |-> PerPage, state |-> "closed", since |-> None, until |-> None]

\* format!("{}?page={}&per_page=100", comments_url, page).
CommentsUrl(comments_url, p) ==
    [walk |-> "comments", base |-> comments_url, page |-> p,
     per_page |-> PerPage, state |-> "", since |-> None, until |-> None]

\* format!("{}?page={}&per_page=100&since={}&until={}", commits_url, page, ..).
CommitsUrl(walk, commits_url, p, since, until) ==
    [walk |-> walk, base |-> commits_url, page |-> p,
     per_page |-> PerPage, state |-> "", since |-> Some(since),
     until |-> Some(until)]

(***************************************************************************)
(* State.                                                                   *)
(***************************************************************************)
VARIABLES
    pc,            \* the position of main
    opts,          \* struct Opts (database_url left out)
    rand,          \* the values rand::random::<u16>() is still to yield
    seen_ids,      \* SeenIds
    url,           \* main's url: the sampled identifier of the next listing
    iter,          \* iterations of the discover loop completed
    repositories,  \* the rest of the listing being iterated
    repository,    \* the repository of the issue walk
    page,          \* the page counter of the walk in progress
    issues,        \* search_too_heated_issues' HashSet<Issue>
    todo,          \* rows of the SELECT not iterated yet
    current,       \* the row of the SELECT being processed
    comments,      \* populate_comments' HashSet<Comment>
    count,         \* count_commits_and_forks' count
    window,        \* <<since, until>> of the current comment
    data_file,     \* data.csv: its lines, each the sequence of its fields
    Repositories,  \* table repositories
    Issues,        \* table Issues
    Comments,      \* table Comments
    last_req,      \* the last request issued
    last_out,      \* its outcome: a failure, "empty", "items" or "none"
    nreq,          \* requests issued by the walk in progress
    npages,        \* non-empty pages decoded by the walk in progress
    nfail,         \* failed requests of the walk in progress
    gap,           \* seconds slept since the last request was issued
    served,        \* what the remote served to the walk (an observation)
    dropped,       \* whether the issue filter dropped an item of the walk
    outage,        \* whether the remote is down for the whole issue walk
    inserted,      \* the issues whose INSERT added a row
    pending,       \* the items the store loop in progress is still to insert
    drawn          \* the identifiers the sampler returned, in order

vars ==
    <<pc, opts, rand, seen_ids, url, iter, repositories, repository,
      page, issues, todo, current, comments, count, window, data_file,
      Repositories, Issues, Comments, last_req, last_out, nreq, npages, nfail,
      gap,
      served, dropped, outage, inserted, pending, drawn>>

samplerVars == <<rand, seen_ids, url, drawn>>
discoverVars == <<iter, repositories, repository, issues>>
enrichVars == <<comments>>
exportVars == <<count, window, data_file>>
storeVars == <<Repositories, Issues, Comments, inserted, pending>>
walkVars ==
    <<page, last_req, last_out, nreq, npages, nfail, gap, served, dropped,
      outage>>

\* The outcome kind of a request.
OutcomeOf(out) ==
    IF out.err # "" THEN out.err
    ELSE IF out.items = <<>> THEN "empty" ELSE "items"

\* Outside an outage, the remote may fail while the walk has had fewer than
\* MaxFail failures.
MayFail == nfail < MaxFail

\* Whether the environment can answer `out` in the current state: failures
\* are bounded per walk, non-empty pages of an unbounded walk by `maxPage`.
CanAnswer(out, maxPage) ==
    /\ out.err # "" => MayFail
    /\ (out.err = "" /\ out.items # <<>>) => page <= maxPage

(***************************************************************************)
(* main: startup and mode dispatch.                                         *)
(***************************************************************************)
\* get_random_repo_url (lines 275-286) and the assignment of its result to
\* main's url; it does not return while no fresh value is yielded.
GetRandomRepoUrl ==
    /\ RandomId(seen_ids, rand) # None
    /\ LET random == Unwrap(RandomId(seen_ids, rand))
       IN /\ seen_ids' = InsertSeen(seen_ids, random.id)
          /\ url' = random.id
          /\ rand' = random.rest
          /\ drawn' = Append(drawn, random.id)

CsvHeader == <<"id_comment", "id_issue", "commits_before", "commits_after">>

\* The SELECT of count_commits_and_forks: toxic comments joined through
\* their issue to the repository's commits_url.
ToxicComments ==
    {[id_comment |-> c.id_comment, id_issue |-> i.id_issue,
      created_at |-> c.created_at, commits_url |-> r.commits_url] :
        <<c, i, r>> \in
            {t \in Comments \X Issues \X Repositories :
                /\ t[1].is_toxic = 1
                /\ t[1].id_issue = Some(t[2].id_issue)
                /\ t[2].id_repo = Some(t[3].id_repo)}}

\* A dispatch that tests generate_csv first.
SelectedModeCsvFirst(o) ==
    IF o.generate_csv THEN "aggregate-and-export"
    ELSE IF o.populate_comments THEN "enrich-comments"
    ELSE "discover"

\* The if / else if / else of main (lines 366-374): the mode of a run.
SelectedMode(o) ==
    IF o.populate_comments THEN "enrich-comments"
    ELSE IF o.generate_csv THEN "aggregate-and-export"
    ELSE "discover"

\* main, lines 357-374, with the SELECT and the header write that open the
\* selected mode.
Start ==
    /\ pc = "main"
    /\ GetRandomRepoUrl
    /\ IF SelectedMode(opts) = "enrich-comments"
       THEN /\ todo' = Issues
            /\ pc' = "next_issue"
            /\ UNCHANGED data_file
       ELSE IF SelectedMode(opts) = "aggregate-and-export"
       THEN /\ data_file' = <<CsvHeader>>
            /\ todo' = ToxicComments
            /\ pc' = "next_comment"
       ELSE /\ pc' = "iteration"
            /\ UNCHANGED <<todo, data_file>>
    /\ UNCHANGED <<opts, discoverVars, current, comments, count,
                   window, storeVars, walkVars>>

(***************************************************************************)
(* discover.                                                                *)
(***************************************************************************)
\* A main that asks for the listing again when the request failed.
AfterListingRetries(outcome) ==
    IF outcome \in Failures THEN "iteration" ELSE "next_repo"

\* Where main goes after get_repositories returned (line 380): on to the
\* loop over the listing, whatever the outcome of the request.
AfterListing(outcome) == "next_repo"

\* get_repositories, lines 80-85 and 376-378: a failed or undecodable
\* listing is the empty listing.
GetRepositories ==
    /\ pc = "iteration"
    /\ iter < Unwrap(opts.iterations)
    /\ \E out \in Outcomes(RepoListings) :
        /\ repositories' = (IF out.err # "" THEN <<>> ELSE out.items)
        /\ last_out' = OutcomeOf(out)
        /\ pc' = AfterListing(OutcomeOf(out))
    /\ last_req' = RepositoriesUrl(url)
    /\ gap' = 0
    /\ UNCHANGED <<opts, samplerVars, iter, repository, issues,
                   todo, current, comments, exportVars, storeVars, page,
                   nreq, npages, nfail, served, dropped,
                   outage>>

\* The discover loop has run opts.iterations times: main returns.
DiscoverDone ==
    /\ pc = "iteration"
    /\ iter >= Unwrap(opts.iterations)
    /\ pc' = "done"
    /\ UNCHANGED <<opts, samplerVars, discoverVars, todo, current,
                   comments, exportVars, storeVars, walkVars>>

\* for repository in repositories, and the entry of
\* search_too_heated_issues (lines 380-381, 88-89).
BeginRepository ==
    /\ pc = "next_repo"
    /\ repositories # <<>>
    /\ repository' = Head(repositories)
    /\ repositories' = Tail(repositories)
    /\ issues' = {}
    /\ page' = 1
    /\ nreq' = 0
    /\ npages' = 0
    /\ nfail' = 0
    /\ served' = {}
    /\ dropped' = FALSE
    /\ outage' \in BOOLEAN
    /\ pc' = "issues"
    /\ UNCHANGED <<opts, samplerVars, iter, todo, current,
                   comments, exportVars, storeVars, last_req, last_out, gap>>

\* An assignment in the place of extend(): the set is the last page's items.
Assigned(set, items) == items

\* HashSet::extend (lines 125, 175).
Extend(set, items) == set \cup items

\* The accepted items of a decoded page, stamped (lines 113-123).
TooHeatedIssues(issues_payload, repository_id) ==
    {StampIssue(i, repository_id) : i \in {x \in Range(issues_payload) : TooHeated(x)}}

\* What the specification's predicate accepts of a decoded page.
AcceptedBySpec(issues_payload) ==
    {i \in Range(issues_payload) :
        i.locked = TRUE /\ i.active_lock_reason = <<"too heated">>
                        /\ i.state = "closed"}

\* A `continue` that asks for the same page again.
IssueContinueRetries(p) == p

\* The page counter after a `continue` of the issue walk: the for loop moves
\* on to the next page.
IssueContinue(p) == p + 1

\* A walk that never sleeps.
IssueNeverSleeps(outcome) == 0

\* The seconds the issue walk sleeps after a page with this outcome: the
\* sleep of line 126 is reached only past both `continue`s and the `break`.
IssueSleep(outcome) == IF outcome = "items" THEN SleepSecs ELSE 0

\* An issue walk without the break of line 110.
IssueWalkIgnoresEmpty(outcome, next_page) == next_page >= IssuePageEnd

\* An issue walk that ends on an empty page only, as the `loop` walks do.
IssueWalkEndsOnEmpty(outcome, next_page) == outcome = "empty"

\* Whether the issue walk is over after a page: the break of lines 109-111,
\* or the end of the range 1..50.
IssueWalkEnds(outcome, next_page) ==
    outcome = "empty" \/ next_page >= IssuePageEnd

\* Whether the remote can answer `out` to a request of the issue walk: every
\* request fails during an outage; otherwise failures are bounded per walk.
IssueCanAnswer(out) ==
    IF outage THEN out.err # "" ELSE (out.err # "" => MayFail)

\* One iteration of `for page in 1..50` (lines 91-127); the loop ends, and
\* search_too_heated_issues returns, on an empty page or after page 49.
IssuePage ==
    /\ pc = "issues"
    /\ page < IssuePageEnd
    /\ \E out \in Outcomes(IssuePages) :
        /\ IssueCanAnswer(out)
        /\ last_out' = OutcomeOf(out)
        /\ issues' = Extend(issues, TooHeatedIssues(out.items, repository.id))
        /\ served' = served \cup AcceptedBySpec(out.items)
        /\ dropped' = (IF Range(out.items) # AcceptedBySpec(out.items)
                       THEN TRUE ELSE dropped)
        /\ UNCHANGED outage
        /\ npages' = (IF OutcomeOf(out) = "items" THEN npages + 1 ELSE npages)
        /\ nfail' = (IF out.err # "" THEN nfail + 1 ELSE nfail)
        /\ gap' = IssueSleep(OutcomeOf(out))
        /\ page' = (CASE OutcomeOf(out) = "items" -> page + 1
                      [] OutcomeOf(out) = "empty" -> page
                      [] OTHER -> IssueContinue(page))
        /\ pc' = (IF IssueWalkEnds(OutcomeOf(out), page')
                  THEN "found" ELSE "issues")
    /\ last_req' =
        IssuesUrl(Unwrap(StripSuffix(repository.issues_url, "{/number}")), page)
    /\ nreq' = nreq + 1
    /\ UNCHANGED <<opts, samplerVars, iter, repositories,
                   repository, todo, current, comments, exportVars, storeVars>>

\* A main that stores every repository it walked.
FoundAlways(too_heated_issues) == TRUE

\* Whether main stores the repository of a finished walk (line 384).
FoundTooHeated(too_heated_issues) == too_heated_issues # {}

\* main, lines 384-387: when the walk accepted an issue the repository is
\* stored (one INSERT, awaited) and store_issues is entered with the set.
StoreFound ==
    /\ pc = "found"
    /\ IF FoundTooHeated(issues)
       THEN /\ Repositories' = StoreRepository(Repositories, repository)
            /\ pending' = issues
            /\ pc' = (IF issues = {} THEN "next_repo" ELSE "store_issues")
       ELSE /\ UNCHANGED <<Repositories, pending>>
            /\ pc' = "next_repo"
    /\ UNCHANGED <<opts, samplerVars, discoverVars, todo, current,
                   comments, exportVars, Issues, Comments, inserted,
                   walkVars>>

\* One iteration of the loop of store_issues (lines 306-321): one INSERT,
\* awaited and committed on its own; the HashSet yields its items in an
\* order of its own.
StoreIssue ==
    /\ pc = "store_issues"
    /\ \E issue \in pending :
        /\ Issues' = InsertIssue(Issues, issue)
        /\ inserted' = inserted \cup
                {i \in {issue} : IssueRow(i) \in Issues' \ Issues}
        /\ pending' = pending \ {issue}
        /\ pc' = (IF pending' = {} THEN "next_repo" ELSE "store_issues")
    /\ UNCHANGED <<opts, samplerVars, discoverVars, todo, current,
                   comments, exportVars, Repositories, Comments, walkVars>>

\* main, lines 391-392: the listing is exhausted; the next URL is sampled
\* and the loop sleeps.
EndIteration ==
    /\ pc = "next_repo"
    /\ repositories = <<>>
    /\ GetRandomRepoUrl
    /\ gap' = gap + SleepSecs
    /\ iter' = iter + 1
    /\ pc' = "iteration"
    /\ UNCHANGED <<opts, repositories, repository, issues, todo,
                   current, comments, exportVars, storeVars, page, last_req,
                   last_out, nreq, npages, nfail, served, dropped,
                   outage>>

(***************************************************************************)
(* enrich-comments (populate_comments).                                     *)
(***************************************************************************)
\* for issue in issues.iter(), lines 140-143: the rows come in the order
\* the SELECT returned them, which the query leaves open.
BeginIssue ==
    /\ pc = "next_issue"
    /\ todo # {}
    /\ \E issue \in todo :
        /\ current' = issue
        /\ todo' = todo \ {issue}
    /\ page' = 1
    /\ nreq' = 0
    /\ npages' = 0
    /\ nfail' = 0
    /\ pc' = "comments"
    /\ UNCHANGED <<opts, samplerVars, discoverVars, comments,
                   exportVars, storeVars, last_req, last_out, gap, served,
                   dropped, outage>>

\* Comments collected as decoded, to be stamped after the set is built.
UnstampedComments(comments_payload, id_issue) == Range(comments_payload)

\* The items of a decoded comment page, stamped (lines 168-173).
FormatedComments(comments_payload, id_issue) ==
    {StampComment(c, id_issue) : c \in Range(comments_payload)}

\* The page counter after a `continue` of a `loop` walk: unchanged.
LoopContinue(p) == p

\* The seconds a `loop` walk sleeps after a page: it never sleeps.
LoopSleep(outcome) == 0

\* One iteration of the comment `loop` (lines 146-177).
CommentPage ==
    /\ pc = "comments"
    /\ \E out \in Outcomes(CommentPages) :
        /\ CanAnswer(out, MaxCommentPage)
        /\ last_out' = OutcomeOf(out)
        /\ comments' = Extend(comments,
                            FormatedComments(out.items, current.id_issue))
        /\ served' = served \cup
                {<<current.id_issue, c>> : c \in Range(out.items)}
        /\ UNCHANGED <<dropped, outage>>
        /\ npages' = (IF OutcomeOf(out) = "items" THEN npages + 1 ELSE npages)
        /\ nfail' = (IF out.err # "" THEN nfail + 1 ELSE nfail)
        /\ gap' = LoopSleep(OutcomeOf(out))
        /\ page' = (CASE OutcomeOf(out) = "items" -> page + 1
                      [] OutcomeOf(out) = "empty" -> page
                      [] OTHER -> LoopContinue(page))
        /\ pc' = (IF OutcomeOf(out) = "empty" THEN "next_issue" ELSE "comments")
    /\ last_req' = CommentsUrl(current.comments_url, page)
    /\ nreq' = nreq + 1
    /\ UNCHANGED <<opts, samplerVars, discoverVars, todo, current,
                   exportVars, storeVars>>

\* store_comments(conn, comments), line 180, after the last issue: the
\* loop of store_comments is entered with the set.
StoreAllComments ==
    /\ pc = "next_issue"
    /\ todo = {}
    /\ pending' = comments
    /\ pc' = (IF comments = {} THEN "done" ELSE "store_comments")
    /\ UNCHANGED <<opts, samplerVars, discoverVars, todo, current,
                   comments, exportVars, Repositories, Issues, Comments,
                   inserted, walkVars>>

\* One iteration of the loop of store_comments (lines 325-340): one INSERT,
\* awaited and committed on its own; the HashSet yields its items in an
\* order of its own.
StoreComment ==
    /\ pc = "store_comments"
    /\ \E comment \in pending :
        /\ Comments' = InsertComment(Comments, comment)
        /\ pending' = pending \ {comment}
        /\ pc' = (IF pending' = {} THEN "done" ELSE "store_comments")
    /\ UNCHANGED <<opts, samplerVars, discoverVars, todo, current,
                   comments, exportVars, Repositories, Issues, inserted,
                   walkVars>>

(***************************************************************************)
(* aggregate-and-export (count_commits_and_forks).                          *)
(***************************************************************************)
\* for comment in comments.iter(), lines 198-210: the suffix of the stored
\* commits_url is stripped (line 201), the row's first two fields are
\* written (line 205) and the window is computed (line 207).  The unwrap of
\* line 201 panics before the write, those of get_since_and_until after it.
BeginComment ==
    /\ pc = "next_comment"
    /\ todo # {}
    /\ \E comment \in todo :
        /\ current' = comment
        /\ todo' = todo \ {comment}
        /\ IF StripSuffix(comment.commits_url, "{/sha}") = None
           THEN /\ pc' = "panicked"
                /\ UNCHANGED <<data_file, window>>
           ELSE /\ data_file' = Append(data_file,
                                    <<comment.id_comment, comment.id_issue>>)
                /\ IF GetSinceAndUntilPanics(comment.created_at)
                   THEN /\ pc' = "panicked"
                        /\ UNCHANGED window
                   ELSE /\ window' = GetSinceAndUntil(comment.created_at)
                        /\ pc' = "commits_before"
    /\ page' = 1
    /\ count' = 0
    /\ nreq' = 0
    /\ npages' = 0
    /\ nfail' = 0
    /\ served' = 0
    /\ UNCHANGED <<dropped, outage>>
    /\ UNCHANGED <<opts, samplerVars, discoverVars, comments,
                   storeVars, last_req, last_out, gap>>

\* write!(data_file, ...) of one more field of the last line.
WriteField(file, field) ==
    [file EXCEPT ![Len(file)] = Append(file[Len(file)], field)]

\* The URL of a page of the before run (line 213).
BeforeUrl(commits_url, p, created_at, since) ==
    CommitsUrl("commits_before", commits_url, p, since, created_at)

\* The URL of a page of the after run (line 243).
AfterUrl(commits_url, p, created_at, until) ==
    CommitsUrl("commits_after", commits_url, p, created_at, until)

\* One iteration of the first commit `loop` (lines 212-236).
CommitsBeforePage ==
    /\ pc = "commits_before"
    /\ \E out \in Outcomes(CommitPages) :
        /\ CanAnswer(out, MaxCommitPage)
        /\ last_out' = OutcomeOf(out)
        /\ served' = served + Len(out.items)
        /\ UNCHANGED <<dropped, outage>>
        /\ npages' = (IF OutcomeOf(out) = "items" THEN npages + 1 ELSE npages)
        /\ nfail' = (IF out.err # "" THEN nfail + 1 ELSE nfail)
        /\ gap' = LoopSleep(OutcomeOf(out))
        /\ page' = (CASE OutcomeOf(out) = "items" -> page + 1
                      [] OutcomeOf(out) = "empty" -> page
                      [] OTHER -> LoopContinue(page))
        /\ count' = count + Len(out.items)
        /\ pc' = (IF OutcomeOf(out) = "empty" THEN "write_before"
                  ELSE "commits_before")
    /\ last_req' = BeforeUrl(Unwrap(StripSuffix(current.commits_url, "{/sha}")),
                             page, current.created_at, window[1])
    /\ nreq' = nreq + 1
    /\ UNCHANGED <<opts, samplerVars, discoverVars, todo, current,
                   comments, window, data_file, storeVars>>

\* An after run that goes on counting from the before count.
KeepCount(c) == c

\* The count an after run starts from (line 240).
ResetCount(c) == 0

\* Lines 238-240: the before count is written, page and count are reset.
WriteBefore ==
    /\ pc = "write_before"
    /\ page' = 1
    /\ data_file' = WriteField(data_file, count)
    /\ count' = ResetCount(count)
    /\ nreq' = 0
    /\ npages' = 0
    /\ nfail' = 0
    /\ served' = 0
    /\ UNCHANGED <<dropped, outage>>
    /\ pc' = "commits_after"
    /\ UNCHANGED <<opts, samplerVars, discoverVars, todo, current,
                   comments, window, storeVars, last_req, last_out, gap>>

\* One iteration of the second commit `loop` (lines 242-266).
CommitsAfterPage ==
    /\ pc = "commits_after"
    /\ \E out \in Outcomes(CommitPages) :
        /\ CanAnswer(out, MaxCommitPage)
        /\ last_out' = OutcomeOf(out)
        /\ served' = served + Len(out.items)
        /\ UNCHANGED <<dropped, outage>>
        /\ npages' = (IF OutcomeOf(out) = "items" THEN npages + 1 ELSE npages)
        /\ nfail' = (IF out.err # "" THEN nfail + 1 ELSE nfail)
        /\ gap' = LoopSleep(OutcomeOf(out))
        /\ page' = (CASE OutcomeOf(out) = "items" -> page + 1
                      [] OutcomeOf(out) = "empty" -> page
                      [] OTHER -> LoopContinue(page))
        /\ count' = count + Len(out.items)
        /\ pc' = (IF OutcomeOf(out) = "empty" THEN "write_after"
                  ELSE "commits_after")
    /\ last_req' = AfterUrl(Unwrap(StripSuffix(current.commits_url, "{/sha}")),
                            page, current.created_at, window[2])
    /\ nreq' = nreq + 1
    /\ UNCHANGED <<opts, samplerVars, discoverVars, todo, current,
                   comments, window, data_file, storeVars>>

\* Line 268: the after count ends the row.
WriteAfter ==
    /\ pc = "write_after"
    /\ data_file' = WriteField(data_file, count)
    /\ pc' = "next_comment"
    /\ UNCHANGED <<opts, samplerVars, discoverVars, todo, current,
                   comments, count, window, storeVars, walkVars>>

\* The loop over the toxic comments is over: count_commits_and_forks returns.
ExportDone ==
    /\ pc = "next_comment"
    /\ todo = {}
    /\ pc' = "done"
    /\ UNCHANGED <<opts, samplerVars, discoverVars, todo, current,
                   comments, exportVars, storeVars, walkVars>>

(***************************************************************************)
(* Initial states.                                                          *)
(***************************************************************************)
TooHeatedIssue(id) == MkIssue(id, TRUE, Some("too heated"), "closed")

\* A Store as earlier runs leave it: discover stored these issues under
\* these repositories, enrich-comments these comments, and an external step
\* flagged some of them toxic.
RepoRows(ids) == {RepositoryRow(MkRepository(id)) : id \in ids}
IssueRowOf(id, repo) == IssueRow(StampIssue(TooHeatedIssue(id), repo))
CommentRowOf(id, issue, created_at, toxic) ==
    [CommentRow(StampComment(MkComment(id), issue))
        EXCEPT !.created_at = created_at, !.is_toxic = toxic]

MkStore(repos, issueRows, commentRows) ==
    [Repositories |-> repos, Issues |-> issueRows, Comments |-> commentRows]

EmptyStore == MkStore({}, {}, {})

\* The Stores an enrich-comments run starts from.
EnrichStores ==
    {EmptyStore,
     MkStore(RepoRows({1}), {IssueRowOf(1, 1)}, {}),
     MkStore(RepoRows({1}), {IssueRowOf(1, 1), IssueRowOf(2, 1)}, {}),
     MkStore(RepoRows({1, 2}), {IssueRowOf(1, 1), IssueRowOf(2, 2)},
             {CommentRowOf(1, 1, Stamp20230515, 1)})}

\* The anchors of the toxic comments of an export run: the specification's
\* example, the first and the last days of every month of 2024, windows
\* over the end of February of an ordinary, a leap, a century and a 400th
\* year and over a year's end, at several times of day, a leap second, and
\* the first and the last day whose window lies in the range of NaiveDate.
Anchors ==
    {a \in {<<2024, m, d, 0, 0, 0>> : m \in 1..12, d \in {1, 29, 30, 31}} :
        ParseFromStr(a) # None}
    \cup
    {Stamp20230515,
     <<2023, 3, 1, 23, 59, 59>>, <<2024, 3, 1, 23, 59, 59>>,
     <<2024, 2, 29, 12, 30, 45>>, <<2024, 1, 30, 0, 0, 0>>,
     <<2024, 1, 15, 0, 0, 1>>, <<2023, 12, 31, 23, 59, 59>>,
     <<2023, 7, 31, 8, 0, 0>>, <<2000, 3, 15, 0, 0, 0>>,
     <<1900, 3, 15, 0, 0, 0>>, <<2100, 2, 10, 6, 7, 8>>,
     <<2016, 12, 31, 23, 59, 60>>,
     <<MinDate[1], 1, 31, 0, 0, 0>>, <<MaxDate[1], 12, 1, 0, 0, 0>>}

\* Stored created_at texts on which get_since_and_until panics: a day that
\* is not in the calendar, and days less than 30 days from the ends of the
\* range of NaiveDate.
PanicAnchors ==
    {<<2023, 2, 30, 0, 0, 0>>,
     <<MinDate[1], 1, 30, 0, 0, 0>>,
     <<MaxDate[1], 12, 2, 0, 0, 0>>}

\* A repository row whose commits_url does not end in "{/sha}".
RepoRowNoSha(id) ==
    RepositoryRow([MkRepository(id) EXCEPT !.commits_url = <<<<"commits", id>>, "">>])

\* The Stores an export run starts from: no comment, one toxic and one
\* unflagged comment, two toxic comments, a toxic comment whose created_at
\* or whose repository's commits_url makes the run panic.
ExportStores ==
    {EmptyStore} \cup
    {MkStore(RepoRows({1}), {IssueRowOf(1, 1)},
             {CommentRowOf(1, 1, a, 1), CommentRowOf(2, 1, Stamp20230515, 0)}) :
        a \in Anchors \cup PanicAnchors} \cup
    {MkStore(RepoRows({1}), {IssueRowOf(1, 1)},
             {CommentRowOf(1, 1, Stamp20230515, 1),
              CommentRowOf(2, 1, <<2024, 3, 1, 23, 59, 59>>, 1)}),
     MkStore({RepoRowNoSha(1)}, {IssueRowOf(1, 1)},
             {CommentRowOf(1, 1, Stamp20230515, 1)})}

\* The command lines: discover with an iteration count, enrich-comments,
\* export (structopt requires --iterations unless a mode flag is given).
DiscoverOpts ==
    {[populate_comments |-> FALSE, generate_csv |-> FALSE, iterations |-> Some(n)] :
        n \in 0..MaxIter}
EnrichOpts ==
    {[populate_comments |-> TRUE, generate_csv |-> g, iterations |-> None] :
        g \in BOOLEAN}
ExportOpts ==
    {[populate_comments |-> FALSE, generate_csv |-> TRUE, iterations |-> None]}

\* The state main starts in, for a command line and a Store.
InitWith(at, o, store, stream) ==
    /\ pc = at
    /\ opts = o
    /\ rand = stream
    /\ seen_ids = {}
    /\ url = 0
    /\ iter = 0
    /\ repositories = <<>>
    /\ repository = MkRepository(1)
    /\ page = 1
    /\ issues = {}
    /\ todo = {}
    /\ current = [id_issue |-> 0]
    /\ comments = {}
    /\ count = 0
    /\ window = <<None, None>>
    /\ data_file = <<>>
    /\ Repositories = store.Repositories
    /\ Issues = store.Issues
    /\ Comments = store.Comments
    /\ last_req = NoRequest
    /\ last_out = "none"
    /\ nreq = 0
    /\ npages = 0
    /\ nfail = 0
    /\ gap = 0
    /\ served = {}
    /\ dropped = FALSE
    /\ outage = FALSE
    /\ inserted = {}
    /\ pending = {}
    /\ drawn = <<>>

\* The random source of a run of main: every value of 0..MaxIter twice in a
\* row, so that every draw but the first rejects a value.
MainStream == [k \in 1..(2 * (MaxIter + 1)) |-> (k - 1) \div 2]

Init ==
    \/ \E o \in DiscoverOpts : InitWith("main", o, EmptyStore, MainStream)
    \/ \E o \in EnrichOpts, s \in EnrichStores : InitWith("main", o, s, MainStream)
    \/ \E o \in ExportOpts, s \in ExportStores : InitWith("main", o, s, MainStream)

Next ==
    \/ Start
    \/ GetRepositories
    \/ DiscoverDone
    \/ BeginRepository
    \/ IssuePage
    \/ StoreFound
    \/ StoreIssue
    \/ EndIteration
    \/ BeginIssue
    \/ CommentPage
    \/ StoreAllComments
    \/ StoreComment
    \/ BeginComment
    \/ CommitsBeforePage
    \/ WriteBefore
    \/ CommitsAfterPage
    \/ WriteAfter
    \/ ExportDone

Spec == Init /\ [][Next]_vars

(***************************************************************************)
(* The sampler alone: get_random_repo_url called again and again on one     *)
(* seen-set.                                                                *)
(***************************************************************************)
SamplerDraw ==
    /\ pc = "sampler"
    /\ GetRandomRepoUrl
    /\ UNCHANGED <<pc, opts, discoverVars, todo, current,
                   comments, exportVars, storeVars, walkVars>>

\* The streams of MaxDraws values of 0..MaxId.
SamplerStreams == [1..MaxDraws -> 0..MaxId]

InitSampler ==
    \E stream \in SamplerStreams :
        InitWith("sampler",
                 [populate_comments |-> FALSE, generate_csv |-> FALSE,
                  iterations |-> None],
                 EmptyStore, stream)

SpecSampler == InitSampler /\ [][SamplerDraw]_vars

(***************************************************************************)
(* A discover run alone.  main is one sequential task: whenever a step is   *)
(* possible (a request returns, a draw ends) it is eventually taken.        *)
(***************************************************************************)
InitDiscover ==
    \E o \in DiscoverOpts : InitWith("main", o, EmptyStore, MainStream)

NextDiscover ==
    \/ Start
    \/ GetRepositories
    \/ DiscoverDone
    \/ BeginRepository
    \/ IssuePage
    \/ StoreFound
    \/ StoreIssue
    \/ EndIteration

SpecDiscover ==
    InitDiscover /\ [][NextDiscover]_vars /\ WF_vars(NextDiscover)

(***************************************************************************)
(* Properties.                                                              *)
(***************************************************************************)
DiscoverMode == ~opts.populate_comments /\ ~opts.generate_csv
EnrichMode == opts.populate_comments
ExportMode == ~opts.populate_comments /\ opts.generate_csv

\* The positions inside a page walk.
WalkPcs == {"issues", "comments", "commits_before", "commits_after"}

\* This step issues one more request of the walk in progress.
NextRequestOfWalk == pc' = pc /\ pc \in WalkPcs /\ nreq >= 1 /\ nreq' = nreq + 1

Keys(table, key) == {r[key] : r \in table}

\* C1: Sampler: after N draws on one seen-set that started empty, the N
\* returned identifiers are pairwise distinct, each is in the seen-set, and
\* the seen-set holds exactly these N identifiers.
C1_SamplerDistinct ==
    /\ \A i, j \in DOMAIN drawn : i # j => drawn[i] # drawn[j]
    /\ \A i \in DOMAIN drawn : drawn[i] \in seen_ids
    /\ seen_ids = Range(drawn)
    /\ Cardinality(seen_ids) = Len(drawn)

\* Three draws were made and at least one yielded value was rejected.
C1_Witness ==
    /\ pc = "sampler"
    /\ Len(drawn) = 3
    /\ Len(drawn) + Len(rand) < MaxDraws

\* C2: Page walk without failures: a walk that was answered k non-empty
\* pages and then an empty page, with no failed request, returns exactly the
\* accepted items of these pages (the commit walks: their number), whatever
\* the order of the items in a page, after exactly k + 1 requests; no
\* request follows the empty page.
C2_WalkWithoutFailures ==
    /\ (pc = "found" /\ last_out = "empty" /\ nfail = 0) =>
        /\ issues = {StampIssue(i, repository.id) : i \in served}
        /\ nreq = npages + 1
    /\ (pc = "next_issue" /\ last_out = "empty" /\ nfail = 0) =>
        /\ {c \in comments : c.issue_id = Some(current.id_issue)}
            = {StampComment(e[2], e[1]) :
                e \in {x \in served : x[1] = current.id_issue}}
        /\ nreq = npages + 1
    /\ (pc \in {"write_before", "write_after"} /\ nfail = 0) =>
        /\ last_out = "empty"
        /\ count = served
        /\ nreq = npages + 1
    /\ (pc \in WalkPcs /\ last_out = "empty") => nreq = 0

\* An issue walk was answered two non-empty pages and the empty page, no
\* request failed, and both issues were accepted.
C2_Witness ==
    /\ pc = "found" /\ last_out = "empty" /\ nfail = 0
    /\ npages = 2 /\ nreq = 3
    /\ Cardinality(issues) = 2

\* C3: Transport/decode failure policy: in every page walk, the request
\* that follows a failed request of the walk is for the same page number.
C3_RetrySamePage ==
    [][(NextRequestOfWalk /\ last_out \in Failures) =>
            (last_req'.walk = last_req.walk /\ last_req'.page = last_req.page)]_vars

\* C4, as stated: no walk issues more than 50 page requests while no
\* request fails.
C4_EveryWalkHasCeiling ==
    (pc \in WalkPcs \cup {"found", "next_issue", "write_before", "write_after"}
        /\ nfail = 0) => nreq <= IssuePageEnd

\* C4, amended: the issue walk has a ceiling: it never issues more than 49
\* page requests (pages 1..49), failed requests included, even when the
\* remote never returns an empty page.  (The comment and commit walks have
\* no ceiling.)
C4_IssueWalkCeiling ==
    pc \in {"issues", "found"} =>
        /\ nreq <= IssuePageEnd - 1
        /\ (pc = "issues" => page = nreq + 1 /\ page < IssuePageEnd)

\* An issue walk ended at the ceiling: 49 non-empty pages, no empty page.
C4_Witness ==
    /\ pc = "found" /\ last_out = "items"
    /\ nreq = IssuePageEnd - 1 /\ npages = IssuePageEnd - 1


\* C5: Only too-heated issues are persisted: after any sequence of discover
\* iterations, every issue row of the Store is the row of a decoded issue
\* with locked = true, active_lock_reason = "too heated" and state =
\* "closed"; an issue that differs in one of the three fields is never
\* inserted.
C5_OnlyTooHeatedPersisted ==
    DiscoverMode =>
        /\ \A i \in inserted :
            /\ i.locked = TRUE
            /\ i.active_lock_reason = Some("too heated")
            /\ i.state = "closed"
        /\ Issues = {IssueRow(i) : i \in inserted}

\* A walk was served an issue the filter dropped and an issue it accepted,
\* and the accepted one was stored.
C5_Witness ==
    /\ DiscoverMode /\ pc = "next_repo"
    /\ dropped /\ issues # {}
    /\ \E i \in issues : i \in inserted /\ IssueRow(i) \in Issues

\* The issues a finished issue walk was served that the specification's
\* predicate accepts, stamped with the repository walked.
AcceptedOfWalk == {StampIssue(i, repository.id) : i \in served}

\* C6: Discover persistence: in a discover iteration with no failed
\* request, the repository of a finished walk is inserted (if absent) if and
\* only if the walk accepted an issue, and the issues inserted (if absent)
\* for it are exactly its accepted issues, one statement each, after the
\* repository; a repository with no matching issue yields no rows.
C6_DiscoverPersistence ==
    [][/\ (pc = "found" /\ nfail = 0) =>
            /\ issues = AcceptedOfWalk
            /\ Issues' = Issues
            /\ IF AcceptedOfWalk = {}
               THEN Repositories' = Repositories /\ pc' = "next_repo"
               ELSE /\ Repositories' =
                        IF repository.id \in Keys(Repositories, "id_repo")
                        THEN Repositories
                        ELSE Repositories \cup {RepositoryRow(repository)}
                    /\ pending' = AcceptedOfWalk
                    /\ pc' = "store_issues"
       /\ (pc = "store_issues" /\ nfail = 0) =>
            /\ Repositories' = Repositories
            /\ pending \subseteq AcceptedOfWalk
            /\ \E i \in pending :
                /\ pending' = pending \ {i}
                /\ Issues' = IF i.id \in Keys(Issues, "id_issue")
                             THEN Issues
                             ELSE Issues \cup {IssueRow(i)}
            /\ pc' = (IF pending' = {} THEN "next_repo" ELSE "store_issues")
            /\ pc' = "next_repo" =>
                {i.id : i \in AcceptedOfWalk} \subseteq Keys(Issues', "id_issue")
       /\ (pc \notin {"found", "store_issues"} /\ DiscoverMode) =>
            Repositories' = Repositories /\ Issues' = Issues]_vars

\* The first repository of a run was served one matching and one
\* non-matching issue, without a failure: one repository row, one issue row.
C6_Witness ==
    /\ DiscoverMode /\ pc = "next_repo" /\ nfail = 0 /\ last_out = "empty"
    /\ dropped /\ Cardinality(served) = 1 /\ npages = 1
    /\ Cardinality(Repositories) = 1 /\ Cardinality(Issues) = 1
    /\ Issues = {IssueRow(i) : i \in AcceptedOfWalk}

\* Every row of the table has its own key.
UniqueKeys(table, key) == Cardinality(Keys(table, key)) = Cardinality(table)

\* The step keeps every row of the table and adds rows of absent keys only.
AppendOnly(old, new, key) ==
    /\ old \subseteq new
    /\ \A r \in new \ old : r[key] \notin Keys(old, key)
    /\ UniqueKeys(new, key)

\* C7: Append-only, insert-if-absent Store: in every step of every mode a
\* committed row is neither modified nor deleted, an insert of a present
\* identifier leaves the table unchanged, each table holds at most one row
\* per identifier, and storing the same items once more leaves the Store
\* as it is.
C7_AppendOnlyStore ==
    [][/\ AppendOnly(Repositories, Repositories', "id_repo")
       /\ AppendOnly(Issues, Issues', "id_issue")
       /\ AppendOnly(Comments, Comments', "id_comment")
       /\ (pc = "store_issues" /\ pc' = "next_repo") =>
            /\ StoreRepository(Repositories', repository) = Repositories'
            /\ \A order \in IterationOrders(issues) :
                StoreIssues(Issues', order) = Issues'
       /\ (pc = "store_comments" /\ pc' = "done") =>
            \A order \in IterationOrders(comments) :
                StoreComments(Comments', order) = Comments']_vars

\* An enrich-comments run collected a comment whose identifier the Store
\* already held, flagged toxic: the stored row is as it was.
C7_Witness ==
    /\ EnrichMode /\ pc = "done"
    /\ \E c \in comments :
        /\ CommentRow(c) \notin Comments
        /\ \E r \in Comments : r.id_comment = c.id /\ r.is_toxic = 1

\* C8: Stamping before deduplication: the parent identifier is set on each
\* item before it enters the walk's result set: the set holds one entry per
\* pair of parent and decoded item served, every entry carries its stamp,
\* and equal decoded items under different parents are different entries.
C8_StampBeforeDedup ==
    /\ (EnrichMode /\ pc \in {"comments", "next_issue", "store_comments",
                             "done"}) =>
        /\ comments = {StampComment(e[2], e[1]) : e \in served}
        /\ Cardinality(comments) = Cardinality(served)
    /\ pc \in {"issues", "found", "store_issues"} =>
        /\ issues = {StampIssue(i, repository.id) : i \in served}
        /\ \A i \in issues : i.repository_id = Some(repository.id)
        /\ Cardinality(issues) = Cardinality(served)

\* The same decoded comment was served twice to one issue (one entry) and
\* once to another issue (a second entry).
C8_Witness ==
    /\ EnrichMode /\ pc = "next_issue" /\ npages = 2
    /\ Cardinality({c \in comments : c.issue_id = Some(current.id_issue)}) = 1
    /\ \E c, d \in comments :
        /\ c # d
        /\ c.issue_id = Some(current.id_issue)
        /\ [c EXCEPT !.issue_id = None] = [d EXCEPT !.issue_id = None]

\* C9, as stated: between any two consecutive requests of a page walk, the
\* earlier one successful or failed, a delay of 5 time units elapses.
C9_DelayBetweenRequests ==
    [][NextRequestOfWalk => gap >= SleepSecs]_vars

\* C9, amended: the issue walk waits 5 time units between a request that
\* was answered a non-empty page and its next request; after a failed
\* request the next request follows without a delay, and the comment and
\* commit walks never wait between two requests.
C9_IssueWalkDelay ==
    [][NextRequestOfWalk =>
        gap = (IF pc = "issues" /\ last_out = "items" THEN SleepSecs ELSE 0)]_vars

\* An issue walk slept after its first page, asked for the second, was
\* answered a non-empty page and slept again.
C9_Witness ==
    /\ pc = "issues" /\ nreq = 2 /\ npages = 2
    /\ last_out = "items" /\ gap = SleepSecs

\* The month before and the month after a month <<y, m>>.
PrevMonth(ym) == IF ym[2] > 1 THEN <<ym[1], ym[2] - 1>> ELSE <<ym[1] - 1, 12>>
NextMonth(ym) == IF ym[2] < 12 THEN <<ym[1], ym[2] + 1>> ELSE <<ym[1] + 1, 1>>

\* The timestamp n calendar days before a timestamp, for n of at most 58
\* days: the day of the month is counted down, borrowing the length of the
\* month before, and of the one before it, when it runs out.
DaysBefore(t, n) ==
    LET m0 == <<t[1], t[2]>>
        m1 == PrevMonth(m0)
        m2 == PrevMonth(m1)
        d1 == t[3] + DaysInMonth(m1[1], m1[2])
        d2 == d1 + DaysInMonth(m2[1], m2[2])
        date == IF t[3] > n THEN m0 \o <<t[3] - n>>
                ELSE IF d1 > n THEN m1 \o <<d1 - n>>
                ELSE m2 \o <<d2 - n>>
    IN date \o <<t[4], t[5], t[6]>>

\* The timestamp n calendar days after a timestamp, for n of at most 58
\* days: the day of the month is counted up, carrying into the next month,
\* and the one after it, when it passes the month's length.
DaysAfter(t, n) ==
    LET m0 == <<t[1], t[2]>>
        m1 == NextMonth(m0)
        m2 == NextMonth(m1)
        d1 == t[3] + n - DaysInMonth(m0[1], m0[2])
        d2 == d1 - DaysInMonth(m1[1], m1[2])
        date == IF d1 <= 0 THEN m0 \o <<t[3] + n>>
                ELSE IF d2 <= 0 THEN m1 \o <<d1>>
                ELSE m2 \o <<d2>>
    IN date \o <<t[4], t[5], t[6]>>

\* A text of six fields that names a day of the calendar and a time of day
\* (a leap second included) in the years NaiveDate covers.
IsTimestamp(t) ==
    /\ t[1] \in MinDate[1]..MaxDate[1]
    /\ t[2] \in 1..12 /\ t[3] \in 1..DaysInMonth(t[1], t[2])
    /\ t[4] \in 0..23 /\ t[5] \in 0..59 /\ t[6] \in 0..60

\* The day 30 days before or 30 days after the timestamp is outside
\* MinDate..MaxDate.
WindowLeavesRange(t) ==
    \/ t[1] = MinDate[1] /\ t[2] = 1 /\ t[3] <= 30
    \/ t[1] = MaxDate[1] /\ t[2] = 12 /\ t[3] >= 2

\* C10: Window bounds: for the anchor t of a toxic comment, since is t - 30
\* days and until is t + 30 days in calendar-day arithmetic (2023-05-15
\* gives 2023-04-15 and 2023-06-14); every request of the before run
\* carries [since, t] and every request of the after run [t, until].  The
\* run stops without a window only when the stored commits_url has no
\* "{/sha}" suffix, the stored text is no timestamp, or a bound of the
\* window lies outside the years NaiveDate covers.
C10_WindowBounds ==
    /\ (ExportMode /\ pc \in {"commits_before", "write_before",
                              "commits_after", "write_after"}) =>
        /\ window = <<DaysBefore(current.created_at, 30),
                      DaysAfter(current.created_at, 30)>>
        /\ current.created_at = Stamp20230515 =>
            window = <<<<2023, 4, 15, 0, 0, 0>>, <<2023, 6, 14, 0, 0, 0>>>>
        /\ ((pc = "commits_before" /\ nreq > 0) \/ pc = "write_before") =>
            /\ last_req.walk = "commits_before"
            /\ last_req.since = Some(DaysBefore(current.created_at, 30))
            /\ last_req.until = Some(current.created_at)
        /\ ((pc = "commits_after" /\ nreq > 0) \/ pc = "write_after") =>
            /\ last_req.walk = "commits_after"
            /\ last_req.since = Some(current.created_at)
            /\ last_req.until = Some(DaysAfter(current.created_at, 30))
    /\ (ExportMode /\ pc = "panicked") =>
        \/ current.commits_url[2] # "{/sha}"
        \/ ~IsTimestamp(current.created_at)
        \/ WindowLeavesRange(current.created_at)

\* The after run of the comment of 2023-05-15 has issued a request.
C10_Witness ==
    /\ ExportMode /\ pc = "commits_after" /\ nreq > 0
    /\ current.created_at = Stamp20230515
    /\ last_req.until = Some(<<2023, 6, 14, 0, 0, 0>>)


\* The last line of the CSV.
LastLine == data_file[Len(data_file)]

\* C11: Export row counts: the CSV is the header followed by one row per
\* toxic comment read from the Store; commits_before is the number of items
\* of the pages of the comment's before run and commits_after the number of
\* items of its after run only: the before total is not carried into the
\* after count, and no count from one comment to the next.
C11_ExportRowCounts ==
    [][ExportMode =>
        /\ (pc = "write_before" /\ pc' = "commits_after") =>
            data_file' = [data_file EXCEPT ![Len(data_file)] =
                            <<current.id_comment, current.id_issue, served>>]
        /\ (pc = "write_after" /\ pc' = "next_comment") =>
            /\ Len(LastLine) = 3
            /\ data_file' = [data_file EXCEPT ![Len(data_file)] =
                                Append(LastLine, served)]
        /\ pc' = "done" =>
            /\ Len(data_file') = 1 + Cardinality(ToxicComments)
            /\ data_file'[1] = CsvHeader
            /\ \A k \in 2..Len(data_file') : Len(data_file'[k]) = 4
            /\ {<<data_file'[k][1], data_file'[k][2]>> : k \in 2..Len(data_file')}
                = {<<c.id_comment, c.id_issue>> : c \in ToxicComments}]_vars

\* Two toxic comments were exported, the second with pages of 7 commits
\* before and of 3 commits after, the first with other counts.
C11_Witness ==
    /\ ExportMode /\ pc = "done"
    /\ Len(data_file) = 3
    /\ data_file[3][3] = 7 /\ data_file[3][4] = 3
    /\ data_file[2][3] = 4 /\ data_file[2][4] = 8


\* C12: Crash loss is bounded by the in-flight batch: at every point of a
\* discover or enrich-comments run the rows committed so far stay as they
\* are, and when a walk begins the accepted items of every walk completed
\* before it are already committed.
C12_CrashLossBounded ==
    [][/\ Repositories \subseteq Repositories'
       /\ Issues \subseteq Issues'
       /\ Comments \subseteq Comments'
       /\ (DiscoverMode /\ pc = "next_repo" /\ pc' = "issues") =>
            \A i \in issues : i.id \in Keys(Issues, "id_issue")
       /\ (EnrichMode /\ pc = "next_issue" /\ pc' = "comments") =>
            \A c \in comments : c.id \in Keys(Comments, "id_comment")]_vars


\* The positions of main in each mode.
DiscoverPcs == {"iteration", "next_repo", "issues", "found", "store_issues"}
EnrichPcs == {"next_issue", "comments", "store_comments"}
ExportPcs == {"next_comment", "commits_before", "write_before",
              "commits_after", "write_after", "panicked"}

\* C13: Mode is fixed per run: for every combination of the two mode flags,
\* both set included, the run performs the actions of one mode only: an
\* enrich-comments run writes no repository row, no issue row and no CSV,
\* an export run writes no Store row, a discover run writes no comment row
\* and no CSV, and the flags do not change.
C13_ModeFixed ==
    [][/\ opts' = opts
       /\ EnrichMode =>
            /\ pc' \in EnrichPcs \cup {"done"}
            /\ Repositories' = Repositories /\ Issues' = Issues
            /\ data_file' = <<>>
       /\ ExportMode =>
            /\ pc' \in ExportPcs \cup {"done"}
            /\ Repositories' = Repositories /\ Issues' = Issues
            /\ Comments' = Comments
            /\ issues' = {} /\ comments' = {}
       /\ DiscoverMode =>
            /\ pc' \in DiscoverPcs \cup {"done"}
            /\ Comments' = Comments
            /\ data_file' = <<>>
            /\ comments' = {}]_vars

\* A run with both mode flags set has collected and stored comments and
\* written no CSV.
C13_Witness ==
    /\ opts.populate_comments /\ opts.generate_csv
    /\ pc = "done"
    /\ \E c \in comments : CommentRow(c) \in Comments
    /\ data_file = <<>>


\* This step is a request of the walk in progress.
RequestOfWalk == pc \in WalkPcs /\ nreq' = nreq + 1

\* C14: Failures do not lose accumulated data: in every walk a failed
\* request (transport or decode) leaves the walk's accumulated result (the
\* item set, the running commit count) and the Store as they are, and the
\* accumulated result never shrinks from one step of a walk to the next.
C14_FailuresKeepData ==
    [][RequestOfWalk =>
        /\ last_out' \in Failures =>
            /\ issues' = issues /\ comments' = comments /\ count' = count
            /\ Repositories' = Repositories /\ Issues' = Issues
            /\ Comments' = Comments
        /\ issues \subseteq issues'
        /\ comments \subseteq comments'
        /\ count <= count']_vars

\* A request of an issue walk failed after the walk had accepted an issue.
C14_Witness ==
    /\ pc = "issues" /\ last_out \in Failures /\ nfail = 1
    /\ issues # {} /\ npages >= 1


\* C15: Discover always terminates: whatever the remote does (failures of
\* either kind, an outage, pages that are never empty), as long as every
\* request returns and every draw ends, a discover run finishes, and each
\* issue walk issues fewer than 50 requests, failed ones included.
C15_DiscoverTerminates ==
    /\ [](pc \in {"issues", "found"} => nreq < IssuePageEnd)
    /\ <>(pc = "done")

\* An issue walk has ended after 49 requests that all failed.
C15_Witness ==
    /\ pc = "found" /\ outage
    /\ nreq = IssuePageEnd - 1 /\ nfail = nreq /\ npages = 0
    /\ last_out \in Failures


\* C16: Referential integrity of the Store: through discover and
\* enrich-comments runs every issue row has a non-null id_repo that is the
\* identifier of a repository row of the Store, and every comment row a
\* non-null id_issue that is the identifier of an issue row of the Store.
C16_ReferentialIntegrity ==
    (DiscoverMode \/ EnrichMode) =>
        /\ \A i \in Issues :
            /\ i.id_repo # None
            /\ Unwrap(i.id_repo) \in Keys(Repositories, "id_repo")
        /\ \A c \in Comments :
            /\ c.id_issue # None
            /\ Unwrap(c.id_issue) \in Keys(Issues, "id_issue")

\* An enrich-comments run has stored the same decoded comment identifier
\* collected under two issues; the row kept names one of them.
C16_Witness ==
    /\ EnrichMode /\ pc = "done"
    /\ Cardinality(Issues) = 2
    /\ Cardinality(comments) >= 3
    /\ \E r \in Comments : r.is_toxic = 0 /\ r.id_issue = Some(2)


\* The comment rows flagged toxic.
Toxic(table) == {r \in table : r.is_toxic = 1}

\* C17: Toxicity flag is preserved: every comment row the program inserts
\* has is_toxic = 0, the flag of a row that exists is never changed, so the
\* rows flagged toxic by the external step stay exactly as they were, and
\* no step sets a flag to 1.
C17_ToxicityPreserved ==
    [][/\ \A r \in Comments' \ Comments : r.is_toxic = 0
       /\ Toxic(Comments') = Toxic(Comments)
       /\ \A r \in Comments : \A q \in Comments' :
            q.id_comment = r.id_comment => q.is_toxic = r.is_toxic]_vars

\* An enrich-comments run on a Store with a comment flagged toxic has
\* collected that comment again and inserted another comment unflagged.
C17_Witness ==
    /\ EnrichMode /\ pc = "done"
    /\ \E r \in Toxic(Comments) :
        \E c \in comments : c.id = r.id_comment /\ c.issue_id = r.id_issue
    /\ \E r \in Comments :
        /\ r.is_toxic = 0
        /\ \E c \in comments : CommentRow(c) = r


\* C18: Repository-listing failure is absorbed: in a discover iteration
\* the listing URL sampled is requested once; when that request fails
\* (transport or decode) the listing is empty, and the run goes on, without
\* a second listing request and without a change of the Store, to the next
\* iteration with a newly sampled URL.
C18_ListingFailureAbsorbed ==
    [][/\ (pc = "iteration" /\ pc' # "done") =>
            /\ pc' = "next_repo"
            /\ last_req' = RepositoriesUrl(url)
            /\ last_out' \in Failures => repositories' = <<>>
            /\ UNCHANGED <<Repositories, Issues, Comments, url, iter>>
       /\ (pc = "next_repo" /\ last_req.walk = "repositories"
                            /\ last_out \in Failures) =>
            /\ pc' = "iteration"
            /\ iter' = iter + 1
            /\ url' \notin seen_ids /\ url' \in seen_ids'
            /\ UNCHANGED <<Repositories, Issues, Comments, last_req>>]_vars

\* The listing request of the first iteration failed and the second URL
\* has been sampled: nothing was stored.
C18_Witness ==
    /\ DiscoverMode /\ pc = "iteration" /\ iter = 1
    /\ last_req.walk = "repositories" /\ last_out \in Failures
    /\ Len(drawn) = 2 /\ url = drawn[2] /\ drawn[1] # drawn[2]
    /\ Repositories = {} /\ Issues = {}

====
